---- MODULE Spec2Model ----
(***************************************************************************)
(* A model of the AI text generation relay: the /api/generate endpoint of  *)
(* backend/main.py and the two provider adapters of llm_utils.             *)
(*                                                                         *)
(* One request is handled at a time; the handler's position is pc.  The    *)
(* provider SDKs, the uploaded file object and the environment are the     *)
(* nondeterministic surroundings of the code.                               *)
(***************************************************************************)
EXTENDS Integers, Sequences, FiniteSets, TLC

VARIABLES
    env,            \* os.environ: the two credential variables
    config_file,    \* the state of config.json when the adapter modules are loaded
    sdk_api_key,    \* the key the Google SDK was last configured with (process-wide)
    served,         \* number of requests received so far
    pc,             \* position of the handler of the request in flight
    req,            \* the request in flight: provider, text, file
    file_open,      \* the uploaded file object has not been closed
    filename,       \* local of generate_text
    mime_type,      \* local of generate_text
    file_content,   \* local of generate_text
    exc,            \* the exception propagating out of generate_text, if any
    ret,            \* the value generate_text returned, if any
    adapter_calls,  \* the adapter invocations of this request, in order
    adapter_frame,  \* locals of the adapter being executed
    outbound,       \* the generation calls made to a provider in this request
    provider_reply, \* what the provider SDK did in this request: returned or raised
    adapter_result, \* how the adapter invocation ended: returned value or raised exception
    response,       \* the HTTP response of the request
    recorded,       \* an earlier exchange kept for comparison: request, reply, response
    parked          \* the handlers suspended at an await, each with its locals

vars == <<env, config_file, sdk_api_key, served, pc, req, file_open, filename,
          mime_type, file_content, exc, ret, adapter_calls, adapter_frame,
          outbound, provider_reply, adapter_result, response, recorded, parked>>

-----------------------------------------------------------------------------
(* Python values *)

None == [tag |-> "None"]
Some(v) == [tag |-> "Some", v |-> v]

\* the test "x is not None" in place of bool(x)
IsNotNone(x) == x.tag = "Some"

\* bool(x) of an Optional[str] or Optional[bytes]: None and the empty value are false
Truthy(x) == x.tag = "Some" /\ Len(x.v) > 0

\* s.startswith(p)
StartsWith(s, p) == Len(s) >= Len(p) /\ SubSeq(s, 1, Len(p)) = p

\* sub in s
Contains(s, sub) ==
    \E i \in 1..(Len(s) - Len(sub) + 1) : SubSeq(s, i, i + Len(sub) - 1) = sub

\* an exception object that is not an HTTPException
Exc(type, msg) == [type |-> type, msg |-> msg]

\* fastapi.HTTPException(status_code=..., detail=...)
HTTPException(status_code, detail) ==
    [type |-> "HTTPException", status_code |-> status_code, detail |-> detail]

\* str(e)
Str(e) ==
    IF e.type = "HTTPException"
    THEN ToString(e.status_code) \o ": " \o e.detail
    ELSE e.msg

-----------------------------------------------------------------------------
(* Python string and bytes operations used by the adapters *)

\* str(x) of an Optional[str], as an f-string formats it
PyStr(x) == IF x = None THEN "None" ELSE x.v

\* the character a byte below 128 decodes to (the letters the model uses)
Chr(b) ==
    CASE b = 32 -> " "
      [] b = 72 -> "H"
      [] b = 105 -> "i"
      [] OTHER -> "."

\* U+FFFD, the replacement character
ReplacementCharacter == "<U+FFFD>"

\* a bytes value is a sequence of runs, a run being one byte value repeated
\* n >= 1 times: b"Hi" is << Run(72, 1), Run(105, 1) >>
Run(b, n) == [byte |-> b, n |-> n]

\* s * n
RECURSIVE Repeat(_, _)
Repeat(s, n) ==
    IF n = 0 THEN ""
    ELSE IF n % 2 = 1 THEN s \o Repeat(s, n - 1)
    ELSE LET half == Repeat(s, n \div 2) IN half \o half

\* bytes.decode(errors='ignore') and bytes.decode(errors='replace') as UTF-8,
\* for payloads in which every byte of 128 or more is an invalid start byte
RECURSIVE Decode(_, _)
Decode(bytes, errors) ==
    IF Len(bytes) = 0 THEN ""
    ELSE LET b == Head(bytes).byte
             c == IF b < 128 THEN Chr(b)
                  ELSE IF errors = "replace" THEN ReplacementCharacter
                  ELSE ""
         IN  Repeat(c, Head(bytes).n) \o Decode(Tail(bytes), errors)

\* bytes[:n]
RECURSIVE Prefix(_, _)
Prefix(bytes, n) ==
    IF Len(bytes) = 0 \/ n <= 0 THEN <<>>
    ELSE IF Head(bytes).n <= n
    THEN << Head(bytes) >> \o Prefix(Tail(bytes), n - Head(bytes).n)
    ELSE << Run(Head(bytes).byte, n) >>

Whitespace == {" ", "\t", "\n", "\r"}

\* str.strip()
RECURSIVE LStrip(_)
LStrip(s) ==
    IF Len(s) > 0 /\ SubSeq(s, 1, 1) \in Whitespace
    THEN LStrip(SubSeq(s, 2, Len(s)))
    ELSE s

RECURSIVE RStrip(_)
RStrip(s) ==
    IF Len(s) > 0 /\ SubSeq(s, Len(s), Len(s)) \in Whitespace
    THEN RStrip(SubSeq(s, 1, Len(s) - 1))
    ELSE s

Strip(s) == RStrip(LStrip(s))

\* one character of str.lower()
LowerChar(c) ==
    CASE c = "A" -> "a" [] c = "B" -> "b" [] c = "C" -> "c" [] c = "D" -> "d"
      [] c = "E" -> "e" [] c = "F" -> "f" [] c = "G" -> "g" [] c = "H" -> "h"
      [] c = "I" -> "i" [] c = "J" -> "j" [] c = "K" -> "k" [] c = "L" -> "l"
      [] c = "M" -> "m" [] c = "N" -> "n" [] c = "O" -> "o" [] c = "P" -> "p"
      [] c = "Q" -> "q" [] c = "R" -> "r" [] c = "S" -> "s" [] c = "T" -> "t"
      [] c = "U" -> "u" [] c = "V" -> "v" [] c = "W" -> "w" [] c = "X" -> "x"
      [] c = "Y" -> "y" [] c = "Z" -> "z" [] OTHER -> c

\* str.lower()
RECURSIVE Lower(_)
Lower(s) ==
    IF Len(s) = 0 THEN ""
    ELSE LowerChar(SubSeq(s, 1, 1)) \o Lower(SubSeq(s, 2, Len(s)))

-----------------------------------------------------------------------------
(* Bounds of the model *)

\* number of requests the process receives, one after the other
MaxRequests == 2

\* number of requests of a process whose exchanges are compared
MaxRepeatRequests == 3

\* number of requests of a process whose handlers run on one event loop
MaxConcurrentRequests == 2

-----------------------------------------------------------------------------
(* The surroundings: environment, config.json, requests *)

\* a credential variable is unset, set to the empty string, or set
EnvValues == {None, Some(""), Some("fake_key")}

Envs == [OPENAI_API_KEY : EnvValues, GOOGLE_API_KEY : EnvValues]

\* os.getenv(name)
Getenv(name) == env[name]

\* states of config.json at import time: the file is missing, cannot be
\* read, is not valid JSON, holds a JSON number, or holds an object whose
\* provider entries are absent or an object holding some of the two model names
AbsentEntry == [kind |-> "absent"]
DictEntry(d, v) == [kind |-> "dict", default_model |-> d, vision_model |-> v]

ConfigFiles ==
    { [kind |-> "missing"],
      [kind |-> "unreadable"],
      [kind |-> "invalid_json"],
      [kind |-> "number"],
      [kind |-> "object",
       openai |-> DictEntry(Some("gpt-test-default"), Some("gpt-test-vision")),
       google |-> DictEntry(Some("gemini-test-default"), Some("gemini-test-vision"))],
      [kind |-> "object",
       openai |-> AbsentEntry,
       google |-> DictEntry(Some("gemini-test-default"), None)] }

\* the provider field of the form
Providers == {"openai", "google", "unknown_provider", "OpenAI"}

\* the text field of the form
Prompts == {"Hello", "Describe this"}

\* file payloads; 72 and 105 are the ASCII letters H and i, 128 is a byte
\* that is not valid UTF-8.  The last payload is 50002 bytes long: its first
\* byte is invalid, its bytes 2000 and 2001 are both i, byte 50001 is invalid
\* and byte 50002 is i
FileDatas ==
    { <<>>,
      << Run(72, 1), Run(105, 1) >>,
      << Run(128, 1), Run(72, 1) >>,
      << Run(128, 1), Run(72, 1998), Run(105, 2), Run(72, 47999), Run(128, 1),
         Run(105, 1) >> }

FileNames == {Some(""), Some("test.txt")}

ContentTypes ==
    {None, Some("image/png"), Some("IMAGE/PNG"), Some("text/plain"),
     Some("application/x-iso9660-image")}

\* an UploadFile: its name, its declared content type, its bytes, and the
\* exception its read() and its close() raise, if any (the bytes of a file
\* whose read() raises are never seen, and are left empty)
UploadFiles ==
    { f \in [filename : FileNames, content_type : ContentTypes, data : FileDatas,
             read_error : {None, Some(Exc("Exception", "Simulated file read error"))},
             close_error : {None, Some(Exc("OSError", "close failed"))}] :
        f.read_error # None => f.data = <<>> }

Requests ==
    [provider : Providers, text : Prompts,
     file : {None} \cup {Some(f) : f \in UploadFiles}]

NoRequest == [provider |-> "", text |-> "", file |-> None]

-----------------------------------------------------------------------------
(* backend/main.py *)

\* a check that examines both credentials whatever the provider is
CheckApiKeyBoth(provider) ==
    IF ~Truthy(Getenv("OPENAI_API_KEY"))
    THEN Some(HTTPException(500,
            "OPENAI_API_KEY not configured. Please set it in the .env file."))
    ELSE IF ~Truthy(Getenv("GOOGLE_API_KEY"))
    THEN Some(HTTPException(500,
            "GOOGLE_API_KEY not configured. Please set it in the .env file."))
    ELSE None

\* a check that never rejects
CheckApiKeySkipped(provider) == None

\* a check made for the first request of the process only
CheckApiKeyFirstRequestOnly(provider) ==
    LET key_name == IF provider = "openai" THEN "OPENAI_API_KEY"
                    ELSE IF provider = "google" THEN "GOOGLE_API_KEY"
                    ELSE ""
    IN  IF key_name = "" \/ served > 1 THEN None
        ELSE IF ~Truthy(Getenv(key_name))
        THEN Some(HTTPException(500,
                key_name \o " not configured. Please set it in the .env file."))
        ELSE None

\* lines 44-61, _check_api_key: the exception it raises, or None
_check_api_key(provider) ==
    LET key_name == IF provider = "openai" THEN "OPENAI_API_KEY"
                    ELSE IF provider = "google" THEN "GOOGLE_API_KEY"
                    ELSE ""
    IN  IF key_name = "" THEN None
        ELSE IF ~Truthy(Getenv(key_name))
        THEN Some(HTTPException(500,
                key_name \o " not configured. Please set it in the .env file."))
        ELSE None

\* a validation that compares the provider without regard to case
InvalidProviderCaseless(provider) == Lower(provider) \notin {"openai", "google"}

\* line 78: provider not in ["openai", "google"]
InvalidProvider(provider) == provider \notin {"openai", "google"}

\* a request arrives; FastAPI parses the form and calls generate_text
Receive ==
    /\ pc = "idle"
    /\ served < MaxRequests
    /\ \E r \in Requests :
         /\ req' = r
         /\ file_open' = (r.file # None)
    /\ served' = served + 1
    /\ pc' = "validate_provider"
    /\ UNCHANGED <<parked, recorded, provider_reply, env, config_file, sdk_api_key, filename, mime_type, file_content,
                   exc, ret, adapter_calls, adapter_frame, outbound, adapter_result,
                   response>>

\* lines 77-80: validate the provider first
ValidateProvider ==
    /\ pc = "validate_provider"
    /\ IF InvalidProvider(req.provider)
       THEN /\ exc' = Some(HTTPException(400,
                        "Invalid AI provider specified. Choose 'openai' or 'google'."))
            /\ pc' = "respond"
       ELSE /\ exc' = exc
            /\ pc' = "check_api_key"
    /\ UNCHANGED <<parked, recorded, provider_reply, env, config_file, sdk_api_key, served, req, file_open, filename,
                   mime_type, file_content, ret, adapter_calls, adapter_frame,
                   outbound, adapter_result, response>>

\* line 83: check the credential of the requested provider
CheckApiKey ==
    /\ pc = "check_api_key"
    /\ LET e == _check_api_key(req.provider)
       IN  IF e # None
           THEN /\ exc' = e
                /\ pc' = "respond"
           ELSE /\ exc' = exc
                /\ pc' = "file_handling"
    /\ UNCHANGED <<parked, recorded, provider_reply, env, config_file, sdk_api_key, served, req, file_open, filename,
                   mime_type, file_content, ret, adapter_calls, adapter_frame,
                   outbound, adapter_result, response>>

\* lines 86-90: the file locals start as None; a file, when present, is read
FileHandling ==
    /\ pc = "file_handling"
    /\ filename' = None
    /\ mime_type' = None
    /\ file_content' = None
    /\ pc' = IF req.file # None THEN "read" ELSE "dispatch"
    /\ UNCHANGED <<parked, recorded, provider_reply, env, config_file, sdk_api_key, served, req, file_open, exc, ret,
                   adapter_calls, adapter_frame, outbound, adapter_result, response>>

\* lines 91-98: name and type are taken, then the payload is read; a failing
\* read becomes a 400
ReadFile ==
    /\ pc = "read"
    /\ LET f == req.file.v
       IN  /\ filename' = f.filename
           /\ mime_type' = f.content_type
           /\ IF f.read_error = None
              THEN /\ file_content' = Some(f.data)
                   /\ exc' = exc
              ELSE /\ file_content' = file_content
                   /\ exc' = Some(HTTPException(400,
                         "Error processing uploaded file: " \o Str(f.read_error.v)))
    /\ pc' = "close"
    /\ UNCHANGED <<parked, recorded, provider_reply, env, config_file, sdk_api_key, served, req, file_open, ret,
                   adapter_calls, adapter_frame, outbound, adapter_result, response>>

\* the closing of lines 99-100 as the last statement of the try block instead
\* of a finally clause: a failed read leaves the file as it is
CloseFileOnSuccessOnly ==
    /\ pc = "close"
    /\ LET f == req.file.v
       IN  IF exc # None
           THEN /\ file_open' = file_open
                /\ exc' = exc
                /\ pc' = "respond"
           ELSE IF f.close_error = None
           THEN /\ file_open' = FALSE
                /\ exc' = exc
                /\ pc' = "dispatch"
           ELSE /\ file_open' = file_open
                /\ exc' = f.close_error
                /\ pc' = "respond"
    /\ UNCHANGED <<parked, recorded, provider_reply, env, config_file, sdk_api_key, served, req, filename, mime_type,
                   file_content, ret, adapter_calls, adapter_frame, outbound,
                   adapter_result, response>>

\* lines 99-100: the finally clause closes the file; an exception raised by
\* close() replaces the one in flight and leaves generate_text
CloseFile ==
    /\ pc = "close"
    /\ LET f == req.file.v
       IN  IF f.close_error = None
           THEN /\ file_open' = FALSE
                /\ exc' = exc
                /\ pc' = IF exc = None THEN "dispatch" ELSE "respond"
           ELSE /\ file_open' = file_open
                /\ exc' = f.close_error
                /\ pc' = "respond"
    /\ UNCHANGED <<parked, recorded, provider_reply, env, config_file, sdk_api_key, served, req, filename, mime_type,
                   file_content, ret, adapter_calls, adapter_frame, outbound,
                   adapter_result, response>>

\* the result of an adapter invocation
Returned(s) == [kind |-> "return", value |-> s]
Raised(e) == [kind |-> "raise", exc |-> e]

\* lines 105-109: the adapter matching the provider is called with the prompt
\* and the file locals; None when the provider matches neither branch
AdapterCall(provider, text, content, name, mime) ==
    IF provider = "openai"
    THEN Some([fn |-> "get_openai_chat_response", prompt |-> text,
               file_content |-> content, filename |-> name])
    ELSE IF provider = "google"
    THEN Some([fn |-> "get_google_gemini_response", prompt |-> text,
               file_content |-> content, filename |-> name, mime_type |-> mime])
    ELSE None

\* lines 103-109: response_text starts as "" and the adapter is entered
Dispatch ==
    /\ pc = "dispatch"
    /\ LET call == AdapterCall(req.provider, req.text, file_content, filename, mime_type)
       IN  IF call = None
           THEN /\ adapter_result' = Some(Returned(""))
                /\ pc' = "interpret"
                /\ UNCHANGED <<adapter_calls, adapter_frame>>
           ELSE /\ adapter_calls' = Append(adapter_calls, call.v)
                /\ adapter_frame' = call
                /\ adapter_result' = adapter_result
                /\ pc' = IF call.v.fn = "get_openai_chat_response"
                         THEN "openai_send" ELSE "google_send"
    /\ UNCHANGED <<parked, recorded, provider_reply, env, config_file, sdk_api_key, served, req, file_open, filename,
                   mime_type, file_content, exc, ret, outbound, response>>

\* handlers in which the generic clause catches every exception
DispatchHandlersRewrap(e) ==
    HTTPException(500,
        "An unexpected server error occurred while contacting the AI provider: "
            \o Str(e))

\* handlers that let every exception through as it is
DispatchHandlersReraise(e) == e

\* lines 121-128: the two except clauses of the dispatch try-block
DispatchHandlers(e) ==
    IF e.type = "HTTPException"
    THEN e
    ELSE HTTPException(500,
            "An unexpected server error occurred while contacting the AI provider: "
                \o Str(e))

\* lines 111-128: what leaves generate_text once the adapter call has ended;
\* [exc, ret], one of them None
AfterAdapter(result) ==
    IF result.kind = "raise"
    THEN [exc |-> Some(DispatchHandlers(result.exc)), ret |-> None]
    ELSE IF StartsWith(result.value, "Error:")
    THEN [exc |-> Some(DispatchHandlers(HTTPException(500, result.value))),
          ret |-> None]
    ELSE [exc |-> None, ret |-> Some([response |-> result.value])]

\* a handler that calls the adapter a second time when the first call
\* ended in an error string
InterpretRetrying ==
    /\ pc = "interpret"
    /\ IF /\ adapter_result.v.kind = "return"
          /\ StartsWith(adapter_result.v.value, "Error:")
          /\ Len(adapter_calls) < 2
       THEN /\ pc' = "dispatch"
            /\ adapter_result' = None
            /\ UNCHANGED <<exc, ret>>
       ELSE /\ exc' = AfterAdapter(adapter_result.v).exc
            /\ ret' = AfterAdapter(adapter_result.v).ret
            /\ pc' = "respond"
            /\ UNCHANGED adapter_result
    /\ UNCHANGED <<parked, recorded, provider_reply, env, config_file, sdk_api_key, served, req, file_open, filename,
                   mime_type, file_content, adapter_calls, adapter_frame, outbound,
                   response>>

\* lines 111-128: the adapter's result is examined and generate_text ends
Interpret ==
    /\ pc = "interpret"
    /\ LET out == AfterAdapter(adapter_result.v)
       IN  /\ exc' = out.exc
           /\ ret' = out.ret
    /\ pc' = "respond"
    /\ UNCHANGED <<parked, recorded, provider_reply, env, config_file, sdk_api_key, served, req, file_open, filename,
                   mime_type, file_content, adapter_calls, adapter_frame, outbound,
                   adapter_result, response>>

\* line 65: FastAPI turns what left generate_text into the HTTP response: a
\* returned value is a 200 with that JSON body, an HTTPException is its status
\* with body {"detail": ...}, any other exception is not converted
HttpResponse(e, r) ==
    IF e = None
    THEN [status_code |-> 200, body |-> r.v]
    ELSE IF e.v.type = "HTTPException"
    THEN [status_code |-> e.v.status_code, body |-> [detail |-> e.v.detail]]
    ELSE [status_code |-> 500, body |-> [unhandled |-> e.v]]

Respond ==
    /\ pc = "respond"
    /\ response' = Some(HttpResponse(exc, ret))
    /\ pc' = "done"
    /\ UNCHANGED <<parked, recorded, provider_reply, env, config_file, sdk_api_key, served, req, file_open, filename,
                   mime_type, file_content, exc, ret, adapter_calls, adapter_frame,
                   outbound, adapter_result>>

\* the response has been sent: the request and everything generate_text held
\* for it are dropped
Finish ==
    /\ pc = "done"
    /\ pc' = "idle"
    /\ req' = NoRequest
    /\ file_open' = FALSE
    /\ filename' = None
    /\ mime_type' = None
    /\ file_content' = None
    /\ exc' = None
    /\ ret' = None
    /\ adapter_calls' = <<>>
    /\ adapter_frame' = None
    /\ outbound' = <<>>
    /\ adapter_result' = None
    /\ provider_reply' = None
    /\ response' = None
    /\ UNCHANGED <<parked, recorded, env, config_file, sdk_api_key, served>>

-----------------------------------------------------------------------------
(* llm_utils: model names resolved when the adapter modules are imported *)

\* lines 26-42 of both adapter modules: the exception that leaves the
\* module-level code reading config.json, or None.  FileNotFoundError and
\* json.JSONDecodeError are caught; open() of a file that cannot be read
\* raises PermissionError, and the test "openai" not in loaded_config raises
\* TypeError when the file holds a number
LoadFailure(file) ==
    IF file.kind = "unreadable"
    THEN Some(Exc("PermissionError", "[Errno 13] Permission denied: 'config.json'"))
    ELSE IF file.kind = "number"
    THEN Some(Exc("TypeError", "argument of type 'int' is not iterable"))
    ELSE None

\* main.py line 18: the adapter modules are imported, and each loads its
\* model names; an exception leaving either import ends the process
Startup ==
    /\ pc = "loading"
    /\ exc' = LoadFailure(config_file)
    /\ pc' = IF LoadFailure(config_file) # None THEN "import_failed" ELSE "idle"
    /\ UNCHANGED <<parked, recorded, provider_reply, env, config_file, sdk_api_key, served,
                   req, file_open, filename, mime_type, file_content, ret,
                   adapter_calls, adapter_frame, outbound, adapter_result, response>>

\* MODEL_CONFIG of an adapter module: the loaded object when the file was
\* read and holds an object under the provider's key, DEFAULT_MODEL_CONFIG
\* (None here) otherwise
ModelConfig(provider) ==
    IF config_file.kind # "object" THEN None
    ELSE IF config_file[provider].kind # "dict" THEN None
    ELSE Some(config_file)

\* MODEL_CONFIG.get(provider, {}).get(role, <built-in name>)
ModelName(provider, role, builtin) ==
    LET cfg == ModelConfig(provider)
    IN  IF cfg = None THEN builtin
        ELSE IF cfg.v[provider][role] = None THEN builtin
        ELSE cfg.v[provider][role].v

\* a module that resolves the chat model from the vision entry
OpenAIModelFromVisionEntry == ModelName("openai", "vision_model", "gpt-4-turbo")

\* openai_utils.py line 48
OPENAI_DEFAULT_MODEL == ModelName("openai", "default_model", "gpt-3.5-turbo")

GOOGLE_DEFAULT_MODEL == ModelName("google", "default_model", "gemini-1.5-flash-latest")

GOOGLE_VISION_MODEL == ModelName("google", "vision_model", "gemini-1.5-flash-latest")

-----------------------------------------------------------------------------
(* llm_utils/openai_utils.py *)

\* file_content[:2000]
OpenAISnippetBytes == 2000

\* max_tokens of the chat completion request
OpenAIMaxTokens == 1024

\* an adapter that decodes the whole file
OpenAIMessagesWholeFile(prompt, content, name) ==
    LET user == [role |-> "user", content |-> prompt]
        file_text_snippet == Decode(content.v, "ignore")
    IN  IF Truthy(content) /\ Truthy(name)
        THEN << [role |-> "system",
                 content |-> "The user has uploaded a file named '" \o name.v
                     \o "'. Its content (first 2000 characters) is: "
                     \o file_text_snippet],
                user >>
        ELSE IF Truthy(content) /\ ~Truthy(name)
        THEN << [role |-> "system",
                 content |-> "The user has uploaded a file (name not provided). "
                     \o "Its content (first 2000 characters) is: "
                     \o file_text_snippet],
                user >>
        ELSE << user >>

\* lines 84-118: the message list
OpenAIMessages(prompt, content, name) ==
    LET user == [role |-> "user", content |-> prompt]
        file_text_snippet == Decode(Prefix(content.v, OpenAISnippetBytes), "ignore")
    IN  IF Truthy(content) /\ Truthy(name)
        THEN << [role |-> "system",
                 content |-> "The user has uploaded a file named '" \o name.v
                     \o "'. Its content (first 2000 characters) is: "
                     \o file_text_snippet],
                user >>
        ELSE IF Truthy(content) /\ ~Truthy(name)
        THEN << [role |-> "system",
                 content |-> "The user has uploaded a file (name not provided). "
                     \o "Its content (first 2000 characters) is: "
                     \o file_text_snippet],
                user >>
        ELSE << user >>

\* exceptions of the OpenAI SDK: those with an HTTP status carry status_code,
\* a bare APIError and an APIConnectionError do not
OpenAIStatusError(type, msg, status_code, etype) ==
    [type |-> type, msg |-> msg, status_code |-> status_code, etype |-> etype]

OpenAIError(type, msg) == [type |-> type, msg |-> msg, etype |-> None]

\* the classes an exception of the SDK is an instance of
OpenAIBases(type) ==
    CASE type = "APIConnectionError" -> {"APIConnectionError", "APIError"}
      [] type = "RateLimitError" -> {"RateLimitError", "APIStatusError", "APIError"}
      [] type = "AuthenticationError" ->
            {"AuthenticationError", "APIStatusError", "APIError"}
      [] type = "InternalServerError" ->
            {"InternalServerError", "APIStatusError", "APIError"}
      [] type = "APIError" -> {"APIError"}
      [] OTHER -> {type}

\* what openai.OpenAI() and client.chat.completions.create(...) can do: return
\* a completion with some choices, or raise
OpenAIMessage(content) == Some([content |-> content])

OpenAIResponses ==
    { <<>>,
      << [message |-> None] >>,
      << [message |-> OpenAIMessage(None)] >>,
      << [message |-> OpenAIMessage(Some(""))] >>,
      << [message |-> OpenAIMessage(Some("  "))] >>,
      << [message |-> OpenAIMessage(Some(" Test OpenAI response\n"))] >>,
      << [message |-> OpenAIMessage(Some("Error: said the model"))] >>,
      << [message |-> OpenAIMessage(Some("first"))],
         [message |-> OpenAIMessage(Some("second"))] >> }

OpenAIExceptions ==
    { OpenAIError("APIConnectionError", "Connection error."),
      OpenAIStatusError("RateLimitError", "Rate limited", 429, Some("rate_limit")),
      OpenAIStatusError("AuthenticationError", "Invalid API Key", 401, None),
      OpenAIStatusError("InternalServerError", "Generic API Error", 500,
                        Some("internal_server_error")),
      OpenAIError("APIError", "Generic API Error"),
      Exc("RuntimeError", "boom") }

OpenAIOutcomes ==
    { [kind |-> "response", choices |-> c] : c \in OpenAIResponses }
        \cup { [kind |-> "raise", call |-> "chat.completions.create", exc |-> e] :
                   e \in OpenAIExceptions }

\* an adapter that reads the last choice
OpenAIExtractLastChoice(choices) ==
    IF Len(choices) > 0 /\ choices[Len(choices)].message # None
    THEN LET bot_response == choices[Len(choices)].message.v.content
         IN  IF Truthy(bot_response)
             THEN Strip(bot_response.v)
             ELSE "Error: OpenAI returned an empty response."
    ELSE "Error: Received an invalid or incomplete response structure from OpenAI."

\* lines 132-141: the text of the first choice
OpenAIExtract(choices) ==
    IF Len(choices) > 0 /\ choices[1].message # None
    THEN LET bot_response == choices[1].message.v.content
         IN  IF Truthy(bot_response)
             THEN Strip(bot_response.v)
             ELSE "Error: OpenAI returned an empty response."
    ELSE "Error: Received an invalid or incomplete response structure from OpenAI."

\* lines 143-159: the except clauses, tried in order
OpenAIHandlers(e) ==
    LET bases == OpenAIBases(e.type)
    IN  IF "APIConnectionError" \in bases
        THEN Returned("Error: OpenAI API Connection Error - " \o Str(e))
        ELSE IF "RateLimitError" \in bases
        THEN Returned("Error: OpenAI API Rate Limit Exceeded - " \o Str(e))
        ELSE IF "AuthenticationError" \in bases
        THEN Returned("Error: OpenAI API Authentication Error - " \o Str(e)
                 \o ". Ensure your OPENAI_API_KEY is correct and active.")
        ELSE IF "APIError" \in bases
        THEN IF "status_code" \in DOMAIN e
             THEN Returned("Error: OpenAI API Error - " \o e.msg
                      \o " (Status Code: " \o ToString(e.status_code)
                      \o ", Type: " \o PyStr(e.etype) \o ")")
             ELSE Raised(Exc("AttributeError",
                      "'APIError' object has no attribute 'status_code'"))
        ELSE Returned("Error: An unexpected error occurred while interacting "
                 \o "with OpenAI - " \o Str(e))

\* lines 80-130: the credential check, the message list, the client and the
\* chat completion request
OpenAISend ==
    /\ pc = "openai_send"
    /\ LET a == adapter_frame.v
       IN  IF ~Truthy(Getenv("OPENAI_API_KEY"))
           THEN /\ adapter_result' = Some(Returned(
                     "Error: OPENAI_API_KEY not found in environment variables. "
                     \o "Please set it in your .env file or system environment."))
                /\ pc' = "interpret"
                /\ UNCHANGED <<outbound, adapter_frame, provider_reply>>
           ELSE \/ \* openai.OpenAI() raises
                   /\ provider_reply' = Some([kind |-> "raise", call |-> "openai.OpenAI",
                          exc |-> Exc("OpenAIError", "client could not be created")])
                   /\ adapter_result' = Some(OpenAIHandlers(provider_reply'.v.exc))
                   /\ pc' = "interpret"
                   /\ UNCHANGED <<outbound, adapter_frame>>
                \/ \* the request is sent
                   /\ outbound' = Append(outbound,
                          [api |-> "openai.chat.completions.create",
                           model |-> OPENAI_DEFAULT_MODEL,
                           messages |-> OpenAIMessages(a.prompt, a.file_content,
                                                       a.filename),
                           max_tokens |-> OpenAIMaxTokens])
                   /\ pc' = "openai_wait"
                   /\ UNCHANGED <<adapter_result, adapter_frame, provider_reply>>
    /\ UNCHANGED <<parked, recorded, env, config_file, sdk_api_key, served, req, file_open, filename,
                   mime_type, file_content, exc, ret, adapter_calls, response>>

\* lines 126-159: the request returns or raises, and the adapter returns
OpenAIRecv ==
    /\ pc = "openai_wait"
    /\ \E o \in OpenAIOutcomes :
         /\ provider_reply' = Some(o)
         /\ adapter_result' = Some(IF o.kind = "response"
                                   THEN Returned(OpenAIExtract(o.choices))
                                   ELSE OpenAIHandlers(o.exc))
    /\ pc' = "interpret"
    /\ UNCHANGED <<parked, recorded, env, config_file, sdk_api_key, served, req, file_open, filename,
                   mime_type, file_content, exc, ret, adapter_calls, adapter_frame,
                   outbound, response>>

-----------------------------------------------------------------------------
(* llm_utils/google_utils.py *)

\* file_content[:50000]
GoogleSnippetBytes == 50000

\* an item of the contents list: a plain string, or the Part built by
\* Part.from_bytes(data=..., mime_type=...)
TextItem(s) == [item |-> "str", text |-> s]
BytesPart(data, mime) == [item |-> "Part", data |-> data, mime_type |-> mime]

\* an adapter that treats every file as text
GoogleBuildTextOnly(prompt, content, name, mime) ==
    IF Truthy(content) /\ (~Truthy(name) \/ ~Truthy(mime))
    THEN Returned("Error: File content provided without filename or MIME type. "
             \o "Both are required for Google Gemini.")
    ELSE IF Truthy(content)
    THEN [kind |-> "send", model |-> GOOGLE_DEFAULT_MODEL,
          contents |-> << TextItem(prompt \o "\n\n"
              \o "--- User Uploaded File: " \o name.v
              \o " (MIME type: " \o mime.v \o ") ---\n"
              \o Decode(Prefix(content.v, GoogleSnippetBytes), "replace") \o "\n"
              \o "--- End of File Content ---") >>]
    ELSE [kind |-> "send", model |-> GOOGLE_DEFAULT_MODEL,
          contents |-> << TextItem(prompt) >>]

\* an adapter that gives a file without a name or a MIME type a default name
\* and a default type
GoogleBuildDefaulting(prompt, content, name, mime) ==
    LET n == IF Truthy(name) THEN name.v ELSE "uploaded_file"
        t == IF Truthy(mime) THEN mime.v ELSE "application/octet-stream"
    IN  IF Truthy(content)
        THEN IF Contains(Lower(t), "image")
             THEN [kind |-> "send", model |-> GOOGLE_VISION_MODEL,
                   contents |-> << TextItem(prompt), BytesPart(content.v, t) >>]
             ELSE [kind |-> "send", model |-> GOOGLE_DEFAULT_MODEL,
                   contents |-> << TextItem(prompt \o "\n\n"
                       \o "--- User Uploaded File: " \o n
                       \o " (MIME type: " \o t \o ") ---\n"
                       \o Decode(Prefix(content.v, GoogleSnippetBytes), "replace") \o "\n"
                       \o "--- End of File Content ---") >>]
        ELSE [kind |-> "send", model |-> GOOGLE_DEFAULT_MODEL,
              contents |-> << TextItem(prompt) >>]

\* lines 89-133: the model and the contents chosen for the inputs, or the
\* error string returned instead
GoogleBuild(prompt, content, name, mime) ==
    IF Truthy(content)
    THEN IF ~Truthy(name) \/ ~Truthy(mime)
         THEN Returned("Error: File content provided without filename or MIME type. "
                  \o "Both are required for Google Gemini.")
         ELSE IF Contains(Lower(mime.v), "image")
         THEN [kind |-> "send", model |-> GOOGLE_VISION_MODEL,
               contents |-> << TextItem(prompt), BytesPart(content.v, mime.v) >>]
         ELSE [kind |-> "send", model |-> GOOGLE_DEFAULT_MODEL,
               contents |-> << TextItem(prompt \o "\n\n"
                   \o "--- User Uploaded File: " \o name.v
                   \o " (MIME type: " \o mime.v \o ") ---\n"
                   \o Decode(Prefix(content.v, GoogleSnippetBytes), "replace") \o "\n"
                   \o "--- End of File Content ---") >>]
    ELSE [kind |-> "send", model |-> GOOGLE_DEFAULT_MODEL,
          contents |-> << TextItem(prompt) >>]

\* the classes an exception of the Google SDK is an instance of
GoogleBases(type) ==
    CASE type = "InvalidArgumentError" -> {"InvalidArgumentError", "GoogleAPIError"}
      [] type = "PermissionDenied" -> {"PermissionDenied", "GoogleAPIError"}
      [] type = "ResourceExhausted" -> {"ResourceExhausted", "GoogleAPIError"}
      [] type = "GoogleAPIError" -> {"GoogleAPIError"}
      [] OTHER -> {type}

\* handlers that try the generic Google API clause first
GoogleHandlersGenericFirst(e, model_name_to_use) ==
    LET bases == GoogleBases(e.type)
        base_message == "Error: Google API Error - " \o Str(e)
                            \o " (Type: " \o e.type \o ")."
    IN  IF "GoogleAPIError" \in bases
        THEN IF "PermissionDenied" \in bases
             THEN base_message \o " This indicates an issue with your GOOGLE_API_KEY."
             ELSE IF "ResourceExhausted" \in bases
             THEN base_message \o " You may have exceeded your API quota (Rate Limit)."
             ELSE base_message
        ELSE IF "InvalidArgumentError" \in bases
        THEN "Error: Google API Invalid Argument - " \o Str(e)
        ELSE "Error: An unexpected error occurred while interacting with Google "
                 \o "Generative AI - " \o Str(e) \o " (Type: " \o e.type \o ")"

\* lines 176-192: the except clauses, tried in order (the backquotes of the
\* invalid-argument message are written as single quotes)
GoogleHandlers(e, model_name_to_use) ==
    LET bases == GoogleBases(e.type)
        base_message == "Error: Google API Error - " \o Str(e)
                            \o " (Type: " \o e.type \o ")."
        model_not_found ==
            /\ Contains(Lower(Str(e)), "model")
            /\ \/ Contains(Lower(Str(e)), "not found")
               \/ Contains(Lower(Str(e)), "could not find")
    IN  IF "InvalidArgumentError" \in bases
        THEN "Error: Google API Invalid Argument - " \o Str(e)
                 \o ". This often means an issue with the request structure "
                 \o "(e.g. malformed 'contents' or invalid 'mime_type')."
        ELSE IF "GoogleAPIError" \in bases
        THEN IF "PermissionDenied" \in bases
             THEN base_message \o " This indicates an issue with your GOOGLE_API_KEY "
                      \o "(e.g., invalid, disabled, or missing necessary permissions "
                      \o "for the Gemini API). Please verify your API key and ensure "
                      \o "the 'Generative Language API' or 'Vertex AI API' (if using "
                      \o "Vertex) is enabled in your Google Cloud Project."
             ELSE IF "ResourceExhausted" \in bases
             THEN base_message \o " You may have exceeded your API quota (Rate Limit). "
                      \o "Please check your usage and limits in the Google Cloud Console."
             ELSE IF model_not_found
             THEN base_message \o " The requested model ('" \o model_name_to_use
                      \o "') might not be found, not available for your "
                      \o "project/region, or the name is misspelled."
             ELSE base_message
        ELSE "Error: An unexpected error occurred while interacting with Google "
                 \o "Generative AI - " \o Str(e) \o " (Type: " \o e.type \o ")"

\* ", ".join(f"{sr.category.name}: {sr.probability.name}" for sr in ratings)
RECURSIVE JoinRatings(_)
JoinRatings(ratings) ==
    IF Len(ratings) = 0 THEN ""
    ELSE ratings[1].category \o ": " \o ratings[1].probability
             \o (IF Len(ratings) > 1 THEN ", " ELSE "")
             \o JoinRatings(Tail(ratings))

\* an adapter that reads the text before it looks at the prompt feedback
GoogleExtractTextFirst(r) ==
    IF r.text = None
    THEN "Error: Content generation failed. The prompt was likely blocked by "
             \o "Google API due to safety filters or other policy reasons. Please "
             \o "review prompt_feedback for details if available."
    ELSE IF Len(r.text.v) > 0
    THEN Strip(r.text.v)
    ELSE IF r.prompt_feedback # None /\ r.prompt_feedback.v.block_reason # None
    THEN "Error: Prompt blocked by Google API. Reason: "
             \o r.prompt_feedback.v.block_reason.v \o ". Safety Ratings: ["
             \o JoinRatings(r.prompt_feedback.v.safety_ratings) \o "]"
    ELSE "Error: Received an empty response from Google Gemini. The prompt "
             \o "may have been too vague or resulted in no actionable output."

\* an adapter that does not look at the first candidate of an empty response
GoogleExtractWithoutFinishReason(r) ==
    IF r.prompt_feedback # None /\ r.prompt_feedback.v.block_reason # None
    THEN "Error: Prompt blocked by Google API. Reason: "
             \o r.prompt_feedback.v.block_reason.v \o ". Safety Ratings: ["
             \o JoinRatings(r.prompt_feedback.v.safety_ratings) \o "]"
    ELSE IF r.text = None
    THEN "Error: Content generation failed. The prompt was likely blocked by "
             \o "Google API due to safety filters or other policy reasons. Please "
             \o "review prompt_feedback for details if available."
    ELSE IF Len(r.text.v) = 0
    THEN "Error: Received an empty response from Google Gemini. The prompt "
             \o "may have been too vague or resulted in no actionable output."
    ELSE Strip(r.text.v)

\* lines 143-173: the result read out of a response of generate_content
GoogleExtract(r) ==
    IF r.prompt_feedback # None /\ r.prompt_feedback.v.block_reason # None
    THEN "Error: Prompt blocked by Google API. Reason: "
             \o r.prompt_feedback.v.block_reason.v \o ". Safety Ratings: ["
             \o JoinRatings(r.prompt_feedback.v.safety_ratings) \o "]"
    ELSE IF r.text = None
    THEN "Error: Content generation failed. The prompt was likely blocked by "
             \o "Google API due to safety filters or other policy reasons. Please "
             \o "review prompt_feedback for details if available."
    ELSE IF Len(r.text.v) = 0
    THEN IF Len(r.candidates) > 0 /\ r.candidates[1].finish_reason # "STOP"
         THEN "Error: Google Gemini returned no content. Finish Reason: "
                  \o r.candidates[1].finish_reason \o ". Safety: ["
                  \o JoinRatings(r.candidates[1].safety_ratings) \o "]"
         ELSE "Error: Received an empty response from Google Gemini. The prompt "
                  \o "may have been too vague or resulted in no actionable output."
    ELSE Strip(r.text.v)

\* what model.generate_content(...) can do: return a response, whose text
\* is None here when reading response.text raises ValueError, or raise
Rating(c, p) == [category |-> c, probability |-> p]

GoogleResponse(feedback, text, candidates) ==
    [prompt_feedback |-> feedback, text |-> text, candidates |-> candidates]

GoogleResponses ==
    { GoogleResponse(None, Some(" Test Google response "),
          << [finish_reason |-> "STOP", safety_ratings |-> <<>>] >>),
      GoogleResponse(
          Some([block_reason |-> Some("SAFETY"),
                safety_ratings |-> << Rating("HARM_CATEGORY_HATE_SPEECH", "HIGH") >>]),
          Some("text of a blocked prompt"), <<>>),
      GoogleResponse(
          Some([block_reason |-> Some("OTHER"), safety_ratings |-> <<>>]),
          None,
          << [finish_reason |-> "SAFETY", safety_ratings |-> <<>>] >>),
      GoogleResponse(Some([block_reason |-> None, safety_ratings |-> <<>>]),
          Some(""),
          << [finish_reason |-> "MAX_TOKENS",
              safety_ratings |-> << Rating("HARM_CATEGORY_HARASSMENT", "LOW"),
                                    Rating("HARM_CATEGORY_HATE_SPEECH", "MEDIUM") >>] >>),
      GoogleResponse(None, Some(""), <<>>),
      GoogleResponse(None, Some(""),
          << [finish_reason |-> "STOP", safety_ratings |-> <<>>] >>),
      GoogleResponse(None, None,
          << [finish_reason |-> "SAFETY", safety_ratings |-> <<>>] >>),
      GoogleResponse(None, Some(" \n"),
          << [finish_reason |-> "STOP", safety_ratings |-> <<>>] >>),
      GoogleResponse(None, Some("Error: said the model"),
          << [finish_reason |-> "STOP", safety_ratings |-> <<>>] >>) }

GoogleExceptions ==
    { Exc("InvalidArgumentError", "bad contents"),
      Exc("PermissionDenied", "API key not valid"),
      Exc("ResourceExhausted", "quota exceeded"),
      Exc("GoogleAPIError", "Model not found: gemini"),
      Exc("GoogleAPIError", "internal error"),
      Exc("RuntimeError", "boom") }

GoogleOutcomes ==
    { [kind |-> "response", response |-> r] : r \in GoogleResponses }
        \cup { [kind |-> "raise", call |-> "generate_content", exc |-> e] :
                   e \in GoogleExceptions }

\* lines 74-141: the credential check, the SDK configuration, the contents
\* and the generation request
GoogleSend ==
    /\ pc = "google_send"
    /\ LET a == adapter_frame.v
           api_key == Getenv("GOOGLE_API_KEY")
           built == GoogleBuild(a.prompt, a.file_content, a.filename, a.mime_type)
       IN  IF ~Truthy(api_key)
           THEN /\ adapter_result' = Some(Returned(
                     "Error: GOOGLE_API_KEY not found in environment variables. "
                     \o "Please set it in your .env file or system environment."))
                /\ pc' = "interpret"
                /\ UNCHANGED <<outbound, adapter_frame, sdk_api_key, provider_reply>>
           ELSE \/ \* configure() raises
                   /\ provider_reply' = Some([kind |-> "raise", call |-> "configure",
                          exc |-> Exc("AttributeError", "configure failed")])
                   /\ adapter_result' = Some(Returned(
                          "Error: Failed to configure Google GenAI SDK - "
                          \o Str(provider_reply'.v.exc)
                          \o ". Check API key and library installation."))
                   /\ pc' = "interpret"
                   /\ UNCHANGED <<outbound, adapter_frame, sdk_api_key>>
                \/ \* the SDK is configured and the inputs are rejected
                   /\ built.kind = "return"
                   /\ sdk_api_key' = api_key
                   /\ adapter_result' = Some(built)
                   /\ pc' = "interpret"
                   /\ UNCHANGED <<outbound, adapter_frame, provider_reply>>
                \/ \* Part.from_bytes raises, outside every try block
                   /\ built.kind = "send"
                   /\ \E i \in 1..Len(built.contents) : built.contents[i].item = "Part"
                   /\ sdk_api_key' = api_key
                   /\ provider_reply' = Some([kind |-> "raise", call |-> "Part.from_bytes",
                          exc |-> Exc("ValueError", "Part.from_bytes failed")])
                   /\ adapter_result' = Some(Raised(provider_reply'.v.exc))
                   /\ pc' = "interpret"
                   /\ UNCHANGED <<outbound, adapter_frame>>
                \/ \* GenerativeModel(...) raises
                   /\ built.kind = "send"
                   /\ sdk_api_key' = api_key
                   /\ provider_reply' = Some([kind |-> "raise", call |-> "GenerativeModel",
                          exc |-> Exc("ValueError", "unknown model")])
                   /\ adapter_result' = Some(Returned(GoogleHandlers(
                          provider_reply'.v.exc, built.model)))
                   /\ pc' = "interpret"
                   /\ UNCHANGED <<outbound, adapter_frame>>
                \/ \* the request is sent
                   /\ built.kind = "send"
                   /\ sdk_api_key' = api_key
                   /\ outbound' = Append(outbound,
                          [api |-> "google.generate_content",
                           model |-> built.model, contents |-> built.contents])
                   /\ adapter_frame' = Some([fn |-> a.fn, model_name_to_use |-> built.model])
                   /\ pc' = "google_wait"
                   /\ UNCHANGED <<adapter_result, provider_reply>>
    /\ UNCHANGED <<parked, recorded, env, config_file, served, req, file_open, filename,
                   mime_type, file_content, exc, ret, adapter_calls, response>>

\* an adapter that clears the SDK's configuration once the call has ended
GoogleRecvResetting ==
    /\ pc = "google_wait"
    /\ \E o \in GoogleOutcomes :
         /\ provider_reply' = Some(o)
         /\ adapter_result' = Some(Returned(
                IF o.kind = "response"
                THEN GoogleExtract(o.response)
                ELSE GoogleHandlers(o.exc, adapter_frame.v.model_name_to_use)))
    /\ sdk_api_key' = None
    /\ pc' = "interpret"
    /\ UNCHANGED <<parked, recorded, env, config_file, served, req, file_open, filename,
                   mime_type, file_content, exc, ret, adapter_calls, adapter_frame,
                   outbound, response>>

\* lines 141-192: the request returns or raises, and the adapter returns
GoogleRecv ==
    /\ pc = "google_wait"
    /\ \E o \in GoogleOutcomes :
         /\ provider_reply' = Some(o)
         /\ adapter_result' = Some(Returned(
                IF o.kind = "response"
                THEN GoogleExtract(o.response)
                ELSE GoogleHandlers(o.exc, adapter_frame.v.model_name_to_use)))
    /\ pc' = "interpret"
    /\ UNCHANGED <<parked, recorded, env, config_file, sdk_api_key, served, req, file_open, filename,
                   mime_type, file_content, exc, ret, adapter_calls, adapter_frame,
                   outbound, response>>

-----------------------------------------------------------------------------
(* The process *)

Init ==
    /\ env \in Envs
    /\ config_file \in ConfigFiles
    /\ sdk_api_key = None
    /\ served = 0
    /\ pc = "loading"
    /\ req = NoRequest
    /\ file_open = FALSE
    /\ filename = None
    /\ mime_type = None
    /\ file_content = None
    /\ exc = None
    /\ ret = None
    /\ adapter_calls = <<>>
    /\ adapter_frame = None
    /\ outbound = <<>>
    /\ provider_reply = None
    /\ adapter_result = None
    /\ response = None
    /\ recorded = None
    /\ parked = <<>>

Next ==
    \/ Startup
    \/ Receive
    \/ ValidateProvider
    \/ CheckApiKey
    \/ FileHandling
    \/ ReadFile
    \/ CloseFile
    \/ Dispatch
    \/ OpenAISend
    \/ OpenAIRecv
    \/ GoogleSend
    \/ GoogleRecv
    \/ Interpret
    \/ Respond
    \/ Finish

Spec == Init /\ [][Next]_vars

-----------------------------------------------------------------------------
(* The process with one of its exchanges kept, to compare later ones with *)

TextFile(type) ==
    [filename |-> Some("test.txt"), content_type |-> type,
     data |-> << Run(72, 1), Run(105, 1) >>, read_error |-> None,
     close_error |-> None]

\* the requests sent to the process, possibly more than once
RepeatedRequests ==
    { [provider |-> "google", text |-> "Hello", file |-> None],
      [provider |-> "google", text |-> "Hello",
       file |-> Some(TextFile(Some("text/plain")))],
      [provider |-> "google", text |-> "Describe this",
       file |-> Some(TextFile(Some("image/png")))],
      [provider |-> "google", text |-> "Hello", file |-> Some(TextFile(None))],
      [provider |-> "openai", text |-> "Hello",
       file |-> Some(TextFile(Some("text/plain")))],
      [provider |-> "openai", text |-> "Describe this", file |-> None],
      [provider |-> "unknown_provider", text |-> "Hello", file |-> None],
      [provider |-> "openai", text |-> "Hello",
       file |-> Some([TextFile(Some("text/plain")) EXCEPT
                        !.data = <<>>,
                        !.read_error = Some(Exc("Exception",
                                                "Simulated file read error"))])] }

\* a request arrives, as in Receive
ReceiveRepeated ==
    /\ pc = "idle"
    /\ served < MaxRepeatRequests
    /\ \E r \in RepeatedRequests :
         /\ req' = r
         /\ file_open' = (r.file # None)
    /\ served' = served + 1
    /\ pc' = "validate_provider"
    /\ UNCHANGED <<parked, recorded, provider_reply, env, config_file, sdk_api_key, filename,
                   mime_type, file_content, exc, ret, adapter_calls, adapter_frame,
                   outbound, adapter_result, response>>

\* the exchange that has just ended is kept: which request of the process it
\* was, the request, what the provider did and the response
Record ==
    /\ pc = "done"
    /\ recorded = None
    /\ parked = <<>>
    /\ recorded' = Some([at |-> served, req |-> req,
                         provider_reply |-> provider_reply,
                         response |-> response.v])
    /\ UNCHANGED <<parked, env, config_file, sdk_api_key, served, pc, req,
                   file_open, filename, mime_type, file_content, exc, ret,
                   adapter_calls, adapter_frame, outbound, provider_reply,
                   adapter_result, response>>

\* the process starts with both credentials set or with the Google one unset
InitRepeated ==
    /\ Init
    /\ env.OPENAI_API_KEY = Some("fake_key")
    /\ env.GOOGLE_API_KEY \in {None, Some("fake_key")}
    /\ config_file.kind \in {"missing", "object"}
    /\ config_file.kind = "object" => config_file.openai.kind = "dict"

NextRepeated ==
    \/ Startup
    \/ ReceiveRepeated
    \/ ValidateProvider
    \/ CheckApiKey
    \/ FileHandling
    \/ ReadFile
    \/ CloseFile
    \/ Dispatch
    \/ OpenAISend
    \/ OpenAIRecv
    \/ GoogleSend
    \/ GoogleRecv
    \/ Interpret
    \/ Respond
    \/ Record
    \/ Finish

SpecRepeated == InitRepeated /\ [][NextRepeated]_vars

-----------------------------------------------------------------------------
(* The process with its handlers as coroutines of one event loop *)

\* generate_text is a coroutine (async def, main.py line 65): the event loop
\* runs one handler at a time and takes another one up only when the running
\* handler awaits.  The handler awaits at file.read() (line 94) and at
\* file.close() (line 100); the adapters are called without await (lines 105
\* and 107) and are plain functions using the blocking SDK clients

\* a request arrives while no handler is running, as in Receive
ReceiveConcurrent ==
    /\ pc = "idle"
    /\ served < MaxConcurrentRequests
    /\ \E r \in RepeatedRequests :
         /\ req' = r
         /\ file_open' = (r.file # None)
    /\ served' = served + 1
    /\ pc' = "validate_provider"
    /\ UNCHANGED <<parked, recorded, provider_reply, env, config_file, sdk_api_key,
                   filename, mime_type, file_content, exc, ret, adapter_calls,
                   adapter_frame, outbound, adapter_result, response>>

\* lines 94 and 100: the running handler awaits and the event loop is free
Suspend ==
    /\ pc \in {"read", "close"}
    /\ parked' = Append(parked,
           [pc |-> pc, req |-> req, file_open |-> file_open, filename |-> filename,
            mime_type |-> mime_type, file_content |-> file_content, exc |-> exc])
    /\ pc' = "idle"
    /\ req' = NoRequest
    /\ file_open' = FALSE
    /\ filename' = None
    /\ mime_type' = None
    /\ file_content' = None
    /\ exc' = None
    /\ UNCHANGED <<recorded, env, config_file, sdk_api_key, served, ret,
                   adapter_calls, adapter_frame, outbound, provider_reply,
                   adapter_result, response>>

\* the event loop, free, takes up a suspended handler where it awaited
Resume ==
    /\ pc = "idle"
    /\ \E i \in 1..Len(parked) :
         /\ pc' = parked[i].pc
         /\ req' = parked[i].req
         /\ file_open' = parked[i].file_open
         /\ filename' = parked[i].filename
         /\ mime_type' = parked[i].mime_type
         /\ file_content' = parked[i].file_content
         /\ exc' = parked[i].exc
         /\ parked' = SubSeq(parked, 1, i - 1) \o SubSeq(parked, i + 1, Len(parked))
    /\ UNCHANGED <<recorded, env, config_file, sdk_api_key, served, ret,
                   adapter_calls, adapter_frame, outbound, provider_reply,
                   adapter_result, response>>

NextConcurrent ==
    \/ Startup
    \/ ReceiveConcurrent
    \/ Suspend
    \/ Resume
    \/ ValidateProvider
    \/ CheckApiKey
    \/ FileHandling
    \/ ReadFile
    \/ CloseFile
    \/ Dispatch
    \/ OpenAISend
    \/ OpenAIRecv
    \/ GoogleSend
    \/ GoogleRecv
    \/ Interpret
    \/ Respond
    \/ Finish

SpecConcurrent == InitRepeated /\ [][NextConcurrent]_vars

-----------------------------------------------------------------------------
(* Properties of the endpoint *)

\* the response of the request in flight has been produced
Done == pc = "done"

\* the response has the given status and a body {"detail": <string>}
IsError(status_code) ==
    /\ response # None
    /\ response.v.status_code = status_code
    /\ DOMAIN response.v.body = {"detail"}

\* the response has the given status and its detail contains the text
ErrorContaining(status_code, text) ==
    /\ IsError(status_code)
    /\ Contains(response.v.body.detail, text)

\* the adapter of this request returned a string starting with "Error:"
AdapterReturnedError ==
    /\ adapter_result # None
    /\ adapter_result.v.kind = "return"
    /\ StartsWith(adapter_result.v.value, "Error:")

\* C1: when the adapter returns a string starting with "Error:", the
\* response is a 500 whose detail is exactly that string
C1_ErrorStringPropagated ==
    (Done /\ AdapterReturnedError) =>
        response = Some([status_code |-> 500,
                         body |-> [detail |-> adapter_result.v.value]])

C1_Witness ==
    /\ Done
    /\ AdapterReturnedError
    /\ req.provider = "google"
    /\ Len(outbound) = 1
    /\ IsError(500)

\* C2: a provider other than "openai" and "google" gets a 400 whose detail
\* contains "Invalid AI provider specified.", and no adapter is invoked
C2_InvalidProviderRejected ==
    (req.provider \notin {"openai", "google"}) =>
        /\ adapter_calls = <<>>
        /\ outbound = <<>>
        /\ Done => ErrorContaining(400, "Invalid AI provider specified.")

C2_Witness ==
    /\ Done
    /\ req.provider = "OpenAI"
    /\ req.file # None
    /\ ~Truthy(Getenv("OPENAI_API_KEY"))
    /\ ErrorContaining(400, "Invalid AI provider specified.")

\* the credential variable of a provider
KeyName(provider) == IF provider = "openai" THEN "OPENAI_API_KEY" ELSE "GOOGLE_API_KEY"

\* the request names a valid provider whose credential is unset or empty
MissingCredential ==
    /\ req.provider \in {"openai", "google"}
    /\ ~Truthy(Getenv(KeyName(req.provider)))

\* C3: a valid provider whose credential is unset or empty gets a 500 naming
\* that credential; a provider whose credential is set is never answered
\* with a missing-credential error, whatever the other credential is
C3_MissingCredential ==
    Done =>
        /\ MissingCredential =>
              ErrorContaining(500, KeyName(req.provider) \o " not configured.")
        /\ (req.provider \in {"openai", "google"} /\ ~MissingCredential) =>
              ~(\E s \in {400, 500} : ErrorContaining(s, " not configured."))

C3_Witness ==
    /\ Done
    /\ req.provider = "openai"
    /\ Getenv("OPENAI_API_KEY") = Some("")
    /\ Truthy(Getenv("GOOGLE_API_KEY"))
    /\ ErrorContaining(500, "OPENAI_API_KEY not configured.")

\* C4: in a request whose credential is missing the handler never reaches
\* the file or an adapter: nothing is read, no adapter is invoked and no
\* provider call is made, and the response is the 500
C4_RejectedBeforeAnyCall ==
    MissingCredential =>
        /\ pc \in {"validate_provider", "check_api_key", "respond", "done"}
        /\ adapter_calls = <<>>
        /\ outbound = <<>>
        /\ file_content = None
        /\ filename = None
        /\ mime_type = None
        /\ Done => IsError(500)

C4_Witness ==
    /\ Done
    /\ MissingCredential
    /\ req.provider = "google"
    /\ req.file # None
    /\ req.file.v.read_error # None
    /\ IsError(500)

\* the request names a valid provider whose credential is set
Admitted ==
    /\ req.provider \in {"openai", "google"}
    /\ ~MissingCredential

\* the adapter call the request calls for: the matching function, the
\* prompt, and the upload's bytes, name and content type (None without a file)
ExpectedAdapterCall ==
    LET content == IF req.file = None THEN None ELSE Some(req.file.v.data)
        name == IF req.file = None THEN None ELSE req.file.v.filename
        mime == IF req.file = None THEN None ELSE req.file.v.content_type
    IN  IF req.provider = "openai"
        THEN [fn |-> "get_openai_chat_response", prompt |-> req.text,
              file_content |-> content, filename |-> name]
        ELSE [fn |-> "get_google_gemini_response", prompt |-> req.text,
              file_content |-> content, filename |-> name, mime_type |-> mime]

\* the adapter of this request returned a string not starting with "Error:"
AdapterReturnedText ==
    /\ adapter_result # None
    /\ adapter_result.v.kind = "return"
    /\ ~StartsWith(adapter_result.v.value, "Error:")

\* C5: a request with a valid provider, a configured credential and a
\* readable or absent file invokes exactly the matching adapter, once, with
\* the prompt and the file's bytes, name and type; a returned string not
\* starting with "Error:" is the body of a 200
C5_MatchingAdapterInvokedOnce ==
    /\ adapter_calls # <<>> => adapter_calls = << ExpectedAdapterCall >>
    /\ (Done /\ Admitted /\ (req.file = None \/ req.file.v.read_error = None)) =>
          /\ adapter_calls = << ExpectedAdapterCall >>
          /\ AdapterReturnedText =>
                response = Some([status_code |-> 200,
                                 body |-> [response |-> adapter_result.v.value]])

\* C6: when reading the uploaded file raises, the response is a 400 with
\* detail "Error processing uploaded file: <exception text>" and no adapter
\* is invoked
C6_ReadFailureIs400 ==
    (Done /\ Admitted /\ req.file # None /\ req.file.v.read_error # None) =>
        /\ response = Some([status_code |-> 400,
               body |-> [detail |-> "Error processing uploaded file: "
                                        \o Str(req.file.v.read_error.v)]])
        /\ adapter_calls = <<>>

\* the adapter of this request raised an exception that is no HTTPException
AdapterRaised ==
    /\ adapter_result # None
    /\ adapter_result.v.kind = "raise"
    /\ adapter_result.v.exc.type # "HTTPException"

\* C7: an exception raised by the adapter that is no HTTPException becomes a
\* 500 whose detail is the generic message followed by the exception's text
C7_UnexpectedExceptionWrapped ==
    (Done /\ AdapterRaised) =>
        response = Some([status_code |-> 500,
            body |-> [detail |->
                "An unexpected server error occurred while contacting the AI provider: "
                    \o Str(adapter_result.v.exc)]])

C7_Witness ==
    /\ Done
    /\ AdapterRaised
    /\ req.provider = "openai"
    /\ Len(outbound) = 1
    /\ IsError(500)

\* C8: every request ends as a 200 with body {"response": string}, a 400
\* with body {"detail": string} or a 500 with body {"detail": string}; a 400
\* only for an invalid provider or a failed read; a missing credential, an
\* adapter error and an unexpected exception always as a 500
C8_ThreeOutcomes ==
    Done =>
        /\ \/ /\ response # None
              /\ response.v.status_code = 200
              /\ DOMAIN response.v.body = {"response"}
           \/ /\ IsError(400)
              /\ \/ req.provider \notin {"openai", "google"}
                 \/ (req.file # None /\ req.file.v.read_error # None)
           \/ IsError(500)
        /\ (MissingCredential \/ AdapterReturnedError \/ AdapterRaised) => IsError(500)

\* C9: no retries: a request invokes an adapter at most once and makes at
\* most one provider call, and once an exception is in flight or the adapter
\* has ended no further adapter or provider call is made for the request
C9_NoRetries ==
    /\ [](Len(adapter_calls) <= 1 /\ Len(outbound) <= 1)
    /\ [][((exc # None \/ adapter_result # None) /\ pc # "done") =>
              (adapter_calls' = adapter_calls /\ outbound' = outbound)]_vars

C9_Witness ==
    /\ Done
    /\ AdapterReturnedError
    /\ req.provider = "openai"
    /\ Len(adapter_calls) = 1
    /\ Len(outbound) = 1

\* the Google adapter was given a non-empty file with a name and an image
\* MIME type
GoogleImageInput ==
    /\ adapter_calls # <<>>
    /\ adapter_calls[1].fn = "get_google_gemini_response"
    /\ Truthy(adapter_calls[1].file_content)
    /\ Truthy(adapter_calls[1].filename)
    /\ adapter_calls[1].mime_type # None
    /\ StartsWith(Lower(adapter_calls[1].mime_type.v), "image/")

\* C10: for a file with a name and an image MIME type the Google adapter
\* sends [prompt, Part(data = file bytes, mime_type = MIME type)] to the
\* configured vision model, and nothing else
C10_ImageGoesToVisionModel ==
    GoogleImageInput =>
        \A i \in 1..Len(outbound) :
            outbound[i] =
                [api |-> "google.generate_content",
                 model |-> GOOGLE_VISION_MODEL,
                 contents |-> << TextItem(adapter_calls[1].prompt),
                                 BytesPart(adapter_calls[1].file_content.v,
                                           adapter_calls[1].mime_type.v) >>]

C10_Witness ==
    /\ GoogleImageInput
    /\ adapter_calls[1].mime_type = Some("image/png")
    /\ GOOGLE_VISION_MODEL # GOOGLE_DEFAULT_MODEL
    /\ Len(outbound) = 1
    /\ Done
    /\ AdapterReturnedText

-----------------------------------------------------------------------------
(* Properties of the adapters' requests *)

\* the Google adapter was given a non-empty file with a name and a MIME type
\* that is not an image type
GoogleTextFileInput ==
    /\ adapter_calls # <<>>
    /\ adapter_calls[1].fn = "get_google_gemini_response"
    /\ Truthy(adapter_calls[1].file_content)
    /\ Truthy(adapter_calls[1].filename)
    /\ Truthy(adapter_calls[1].mime_type)
    /\ ~StartsWith(Lower(adapter_calls[1].mime_type.v), "image/")

\* the prompt the Google adapter builds around the excerpt of a text file
GoogleEnhancedPrompt(prompt, name, mime, excerpt) ==
    prompt \o "\n\n--- User Uploaded File: " \o name \o " (MIME type: " \o mime
        \o ") ---\n" \o excerpt \o "\n--- End of File Content ---"

\* C11: for a file with a name and a non-image MIME type the Google adapter
\* sends to the configured default model a single content item, the prompt
\* followed by the file header, the lossy decoding of the first 50000 bytes
\* of the file and the end marker; later bytes are not part of the request
C11_TextFileSplicedIntoPrompt ==
    GoogleTextFileInput =>
        \A i \in 1..Len(outbound) :
            outbound[i] =
                [api |-> "google.generate_content",
                 model |-> GOOGLE_DEFAULT_MODEL,
                 contents |-> << TextItem(GoogleEnhancedPrompt(
                     adapter_calls[1].prompt,
                     adapter_calls[1].filename.v,
                     adapter_calls[1].mime_type.v,
                     Decode(Prefix(adapter_calls[1].file_content.v, 50000),
                            "replace"))) >>]

\* the Google adapter was given a non-empty file without a name or without
\* a MIME type
GoogleIncompleteFileInput ==
    /\ adapter_calls # <<>>
    /\ adapter_calls[1].fn = "get_google_gemini_response"
    /\ Truthy(adapter_calls[1].file_content)
    /\ ~Truthy(adapter_calls[1].filename) \/ ~Truthy(adapter_calls[1].mime_type)

\* the adapter of this request has ended by returning the string
AdapterReturned(value) ==
    /\ adapter_result # None
    /\ adapter_result.v = Returned(value)

\* the call that configures the Google SDK raised
ConfigureFailed ==
    /\ provider_reply # None
    /\ provider_reply.v.kind = "raise"
    /\ provider_reply.v.call = "configure"

IncompleteFileMessage ==
    "Error: File content provided without filename or MIME type. "
        \o "Both are required for Google Gemini."

OpenAINoFileInput ==
    /\ adapter_calls # <<>>
    /\ adapter_calls[1].fn = "get_openai_chat_response"
    /\ adapter_calls[1].file_content = None

\* the default chat model config.json names for OpenAI, or the built-in name
ConfiguredOpenAIChatModel ==
    IF /\ config_file.kind = "object"
       /\ config_file.openai.kind = "dict"
       /\ config_file.openai.default_model # None
    THEN config_file.openai.default_model.v
    ELSE "gpt-3.5-turbo"

\* C13: without a file the OpenAI adapter's request has the single message
\* {role: user, content: prompt}, the configured default chat model and
\* max_tokens 1024; in every OpenAI request the model is that default model,
\* whatever the vision model name and the file's MIME type are
C13_PromptOnlyRequest ==
    /\ OpenAINoFileInput =>
           \A i \in 1..Len(outbound) :
               outbound[i] =
                   [api |-> "openai.chat.completions.create",
                    model |-> ConfiguredOpenAIChatModel,
                    messages |-> << [role |-> "user",
                                     content |-> adapter_calls[1].prompt] >>,
                    max_tokens |-> 1024]
    /\ \A i \in 1..Len(outbound) :
           outbound[i].api = "openai.chat.completions.create" =>
               /\ outbound[i].model = ConfiguredOpenAIChatModel
               /\ outbound[i].max_tokens = 1024

C13_Witness ==
    /\ Done
    /\ OpenAINoFileInput
    /\ Len(outbound) = 1
    /\ config_file.kind = "object"
    /\ config_file.openai.kind = "dict"
    /\ config_file.openai.vision_model # config_file.openai.default_model
    /\ outbound[1].model = "gpt-test-default"
    /\ AdapterReturnedText

\* the OpenAI adapter was called with a non-empty file
OpenAIFileInput ==
    /\ adapter_calls # <<>>
    /\ adapter_calls[1].fn = "get_openai_chat_response"
    /\ Truthy(adapter_calls[1].file_content)

\* the system message describing a named file
NamedFileMessage(name, excerpt) ==
    [role |-> "system",
     content |-> "The user has uploaded a file named '" \o name
         \o "'. Its content (first 2000 characters) is: " \o excerpt]

\* the system message describing a file without a name
UnnamedFileMessage(excerpt) ==
    [role |-> "system",
     content |-> "The user has uploaded a file (name not provided). "
         \o "Its content (first 2000 characters) is: " \o excerpt]

UserMessage == [role |-> "user", content |-> adapter_calls[1].prompt]

\* every OpenAI request of this call ends with the user message and has one
\* or two messages
UserMessageLast ==
    \A i \in 1..Len(outbound) :
        outbound[i].api = "openai.chat.completions.create" =>
            /\ Len(outbound[i].messages) \in {1, 2}
            /\ outbound[i].messages[Len(outbound[i].messages)] = UserMessage

HasUndecodableByte(bytes) == \E i \in 1..Len(bytes) : bytes[i].byte >= 128

\* C15: when the file's bytes are not valid text the OpenAI adapter makes no
\* provider call and returns a string starting with "Error: Could not decode
\* file content for OpenAI."
C15_UndecodableFileRejected ==
    (OpenAIFileInput /\ HasUndecodableByte(adapter_calls[1].file_content.v)) =>
        /\ outbound = <<>>
        /\ adapter_result # None =>
               /\ adapter_result.v.kind = "return"
               /\ StartsWith(adapter_result.v.value,
                             "Error: Could not decode file content for OpenAI.")

\* the generation call of the OpenAI adapter raised
OpenAICallRaised ==
    /\ provider_reply # None
    /\ provider_reply.v.kind = "raise"
    /\ provider_reply.v.call = "chat.completions.create"

\* the category of an exception raised by the OpenAI SDK, most specific first
OpenAICategory(e) ==
    CASE e.type = "APIConnectionError" -> "connection"
      [] e.type = "RateLimitError" -> "rate limit"
      [] e.type = "AuthenticationError" -> "authentication"
      [] e.type \in {"APIError", "InternalServerError"} -> "other API error"
      [] OTHER -> "anything else"

\* the start of the error string of a category
OpenAICategoryPrefix(category) ==
    CASE category = "connection" -> "Error: OpenAI API Connection Error - "
      [] category = "rate limit" -> "Error: OpenAI API Rate Limit Exceeded - "
      [] category = "authentication" -> "Error: OpenAI API Authentication Error - "
      [] category = "other API error" -> "Error: OpenAI API Error - "
      [] OTHER -> "Error: An unexpected error occurred while interacting with OpenAI - "

\* the adapter returned the error string of the exception's own category
\* carrying the exception's message
OpenAIMappedToOwnCategory(e) ==
    /\ adapter_result.v.kind = "return"
    /\ StartsWith(adapter_result.v.value,
                  OpenAICategoryPrefix(OpenAICategory(e)) \o e.msg)
    /\ OpenAICategory(e) = "authentication" <=>
           Contains(adapter_result.v.value,
                    ". Ensure your OPENAI_API_KEY is correct and active.")
    /\ OpenAICategory(e) = "other API error" <=>
           Contains(adapter_result.v.value, " (Status Code: ")

\* C16: every exception raised by the OpenAI provider call is returned as the
\* error string of its own category: connection, rate limit, authentication
\* with its hint, other API error with status code and type, anything else
\* as the unexpected-error string
C16_OpenAIErrorCategories ==
    (OpenAICallRaised /\ adapter_result # None) =>
        OpenAIMappedToOwnCategory(provider_reply.v.exc)

\* a call of the Google SDK inside the adapter's try block raised
GoogleCallRaised ==
    /\ provider_reply # None
    /\ provider_reply.v.kind = "raise"
    /\ provider_reply.v.call \in {"GenerativeModel", "generate_content"}

KeyHint == "This indicates an issue with your GOOGLE_API_KEY"
QuotaHint == "You may have exceeded your API quota"
ModelHint == "might not be found, not available for your project/region"

\* the exception's message says that a model was not found
SaysModelNotFound(e) ==
    /\ Contains(Lower(e.msg), "model")
    /\ Contains(Lower(e.msg), "not found") \/ Contains(Lower(e.msg), "could not find")

\* the string returned for an exception of the Google SDK is the one of its
\* category
GoogleMappedToOwnCategory(e, value) ==
    LET generic == StartsWith(value, "Error: Google API Error - " \o e.msg)
        key == Contains(value, KeyHint)
        quota == Contains(value, QuotaHint)
        model == Contains(value, ModelHint)
    IN  CASE e.type = "InvalidArgumentError" ->
               /\ StartsWith(value, "Error: Google API Invalid Argument - " \o e.msg)
               /\ ~generic
          [] e.type = "PermissionDenied" -> generic /\ key /\ ~quota /\ ~model
          [] e.type = "ResourceExhausted" -> generic /\ quota /\ ~key /\ ~model
          [] e.type = "GoogleAPIError" ->
               generic /\ ~key /\ ~quota /\ (model <=> SaysModelNotFound(e))
          [] OTHER ->
               StartsWith(value, "Error: An unexpected error occurred while "
                   \o "interacting with Google Generative AI - " \o e.msg)

\* C17: an exception raised by the Google SDK is returned as the string of
\* its category: invalid argument under its own heading and never under the
\* generic one; permission denied under the generic heading with the
\* GOOGLE_API_KEY hint; resource exhausted with the quota hint; any other
\* Google API error with no hint but the model hint when its message says a
\* model was not found; anything else as the unexpected-error string; the
\* key hint and the quota hint never appear together
C17_GoogleErrorCategories ==
    (GoogleCallRaised /\ adapter_result # None) =>
        /\ adapter_result.v.kind = "return"
        /\ GoogleMappedToOwnCategory(provider_reply.v.exc, adapter_result.v.value)
        /\ ~(Contains(adapter_result.v.value, KeyHint)
                /\ Contains(adapter_result.v.value, QuotaHint))

C17_Witness ==
    /\ Done
    /\ GoogleCallRaised
    /\ provider_reply.v.call = "generate_content"
    /\ provider_reply.v.exc.type = "InvalidArgumentError"
    /\ AdapterReturnedError
    /\ IsError(500)

-----------------------------------------------------------------------------
(* Properties of the process *)

\* the name config.json gives a provider's role, or the built-in name when
\* the file gives no usable entry
ConfiguredName(provider, role, builtin) ==
    IF /\ config_file.kind = "object"
       /\ config_file[provider].kind = "dict"
       /\ config_file[provider][role] # None
    THEN config_file[provider][role].v
    ELSE builtin

\* C18: whatever the state of config.json, loading the adapter modules does
\* not fail, and every role has the name the file gives it or else the
\* built-in name, each provider falling back on its own
C18_ConfigLoadingNeverFails ==
    /\ pc # "import_failed"
    /\ pc # "loading" =>
           /\ OPENAI_DEFAULT_MODEL =
                  ConfiguredName("openai", "default_model", "gpt-3.5-turbo")
           /\ GOOGLE_DEFAULT_MODEL =
                  ConfiguredName("google", "default_model", "gemini-1.5-flash-latest")
           /\ GOOGLE_VISION_MODEL =
                  ConfiguredName("google", "vision_model", "gemini-1.5-flash-latest")

RepeatsRecorded ==
    /\ recorded # None
    /\ recorded.v.at < served
    /\ req = recorded.v.req
    /\ provider_reply = recorded.v.provider_reply

\* C19: a request with the provider, prompt and file of an earlier request of
\* the process, to which the provider replies as it did then, gets the status
\* and body the earlier one got, whatever requests came before or between
C19_RepeatedRequestSameResponse ==
    (Done /\ RepeatsRecorded) => response.v = recorded.v.response

C19_Witness ==
    /\ Done
    /\ RepeatsRecorded
    /\ recorded.v.at = 1
    /\ served = 3
    /\ req.provider = "google"
    /\ req.file # None
    /\ sdk_api_key # None
    /\ response.v.status_code = 200

-----------------------------------------------------------------------------
(* Properties of the adapters' results *)

\* the adapter of this request is the given function
AdapterIs(fn) ==
    /\ adapter_calls # <<>>
    /\ adapter_calls[1].fn = fn

\* C21: every call of the OpenAI adapter ends by returning a string, whatever
\* the provider call returns or raises; no exception leaves the adapter, not
\* even one raised inside its exception handlers
C21_OpenAIAdapterTotal ==
    (AdapterIs("get_openai_chat_response") /\ adapter_result # None) =>
        adapter_result.v.kind = "return"

\* C22: every call of the Google adapter ends by returning a string, whatever
\* configuring the SDK, building the image part, creating the model, the
\* generation call and reading the response do; no exception leaves the adapter
C22_GoogleAdapterTotal ==
    (AdapterIs("get_google_gemini_response") /\ adapter_result # None) =>
        adapter_result.v.kind = "return"

\* the generation call of the Google adapter returned a response
GoogleCallReturned ==
    /\ provider_reply # None
    /\ provider_reply.v.kind = "response"
    /\ AdapterIs("get_google_gemini_response")

\* the response carries a block reason
Blocked(r) == r.prompt_feedback # None /\ r.prompt_feedback.v.block_reason # None

\* C23: when the response of the generation call carries a block reason, the
\* adapter returns "Error: Prompt blocked by Google API. Reason: <reason>.
\* Safety Ratings: [<category: probability, ...>]" whatever text, candidates
\* and finish reason the response holds, also when reading the text would raise
C23_PromptBlockCheckedFirst ==
    (GoogleCallReturned /\ adapter_result # None
        /\ Blocked(provider_reply.v.response)) =>
        adapter_result.v = Returned(
            "Error: Prompt blocked by Google API. Reason: "
                \o provider_reply.v.response.prompt_feedback.v.block_reason.v
                \o ". Safety Ratings: ["
                \o JoinRatings(provider_reply.v.response.prompt_feedback.v.safety_ratings)
                \o "]")

C23_Witness ==
    /\ Done
    /\ GoogleCallReturned
    /\ Blocked(provider_reply.v.response)
    /\ provider_reply.v.response.text = None
    /\ AdapterReturned("Error: Prompt blocked by Google API. Reason: OTHER. "
                           \o "Safety Ratings: []")
    /\ IsError(500)

\* the result the Google adapter gives a response without a block reason
UnblockedResult(r) ==
    IF r.text = None
    THEN "Error: Content generation failed. The prompt was likely blocked by "
             \o "Google API due to safety filters or other policy reasons. Please "
             \o "review prompt_feedback for details if available."
    ELSE IF r.text.v = "" /\ r.candidates # <<>> /\ r.candidates[1].finish_reason # "STOP"
    THEN "Error: Google Gemini returned no content. Finish Reason: "
             \o r.candidates[1].finish_reason \o ". Safety: ["
             \o JoinRatings(r.candidates[1].safety_ratings) \o "]"
    ELSE IF r.text.v = ""
    THEN "Error: Received an empty response from Google Gemini. The prompt "
             \o "may have been too vague or resulted in no actionable output."
    ELSE Strip(r.text.v)

\* C24: for a response without a block reason the Google adapter returns the
\* blocked message when reading the text raises ValueError, the no-content
\* message with finish reason and safety ratings when the text is empty and
\* the first candidate did not finish with STOP, the empty-response message
\* when the text is empty otherwise, and the trimmed text in every other case
C24_UnblockedResponseOutcomes ==
    (GoogleCallReturned /\ adapter_result # None
        /\ ~Blocked(provider_reply.v.response)) =>
        adapter_result.v = Returned(UnblockedResult(provider_reply.v.response))

C24_Witness ==
    /\ Done
    /\ GoogleCallReturned
    /\ ~Blocked(provider_reply.v.response)
    /\ provider_reply.v.response.text = Some("")
    /\ AdapterReturned("Error: Google Gemini returned no content. Finish Reason: "
           \o "MAX_TOKENS. Safety: [HARM_CATEGORY_HARASSMENT: LOW, "
           \o "HARM_CATEGORY_HATE_SPEECH: MEDIUM]")

\* the generation call of the OpenAI adapter returned a completion
OpenAICallReturned ==
    /\ provider_reply # None
    /\ provider_reply.v.kind = "response"
    /\ AdapterIs("get_openai_chat_response")

\* the result the OpenAI adapter gives a completion with this first choice
FirstChoiceResult(first) ==
    IF first.message = None
    THEN "Error: Received an invalid or incomplete response structure from OpenAI."
    ELSE IF first.message.v.content = None \/ first.message.v.content = Some("")
    THEN "Error: OpenAI returned an empty response."
    ELSE Strip(first.message.v.content.v)

\* C25: when the provider call returns, the OpenAI adapter returns the
\* trimmed content of the first choice's message when that content is
\* non-empty, the empty-response message when it is empty or absent, and the
\* invalid-structure message when there is no choice or the first choice has
\* no message; later choices play no part
C25_FirstChoiceContent ==
    (OpenAICallReturned /\ adapter_result # None) =>
        adapter_result.v = Returned(
            IF provider_reply.v.choices = <<>>
            THEN "Error: Received an invalid or incomplete response structure "
                     \o "from OpenAI."
            ELSE FirstChoiceResult(provider_reply.v.choices[1]))

C25_Witness ==
    /\ Done
    /\ OpenAICallReturned
    /\ Len(provider_reply.v.choices) = 2
    /\ AdapterReturned("first")
    /\ response.v = [status_code |-> 200, body |-> [response |-> "first"]]

-----------------------------------------------------------------------------
(* Properties of the handlers on the event loop *)

\* a provider call of the running handler is in flight
ProviderCallInFlight == pc \in {"openai_wait", "google_wait"}

\* C26: the handler suspends at the file read and at the provider call: while
\* a provider call of one request is in flight, a suspended handler of
\* another request can be taken up
C26_OtherHandlersProgress ==
    (ProviderCallInFlight /\ parked # <<>>) => ENABLED Resume

-----------------------------------------------------------------------------
(* Properties of the order of the handler's steps *)

\* the upload of an admitted request fails to read
ReadFails ==
    /\ Admitted
    /\ req.file # None
    /\ req.file.v.read_error # None

\* C27: the checks run in the order provider, credential, file read, adapter
\* call, and the first one that fails decides the response: an invalid
\* provider gets the 400 whatever the credentials are, a missing credential
\* gets the 500 without the file being read, a failed read gets the 400 of
\* the file error without an adapter call
C27_FirstFailingStepDecides ==
    /\ filename # None => Admitted
    /\ adapter_calls # <<>> => (Admitted /\ ~ReadFails)
    /\ Done =>
          /\ req.provider \notin {"openai", "google"} =>
                ErrorContaining(400, "Invalid AI provider specified.")
          /\ MissingCredential =>
                ErrorContaining(500, KeyName(req.provider) \o " not configured.")
          /\ ReadFails =>
                ErrorContaining(400, "Error processing uploaded file: ")

\* the handler has started to read the upload of its request
ReadStarted ==
    /\ Admitted
    /\ req.file # None
    /\ pc \notin {"idle", "validate_provider", "check_api_key", "file_handling", "read"}

CloseRaised ==
    /\ req.file.v.close_error # None
    /\ exc = req.file.v.close_error

-----------------------------------------------------------------------------
(* Properties of empty content and empty uploads *)

\* C29: a string returned by an adapter is an error message starting with
\* "Error:" or a non-empty generated text, whatever the provider answered,
\* content made only of whitespace included; a 200 response never carries an
\* empty "response"
C29_NoEmptyResult ==
    /\ (adapter_result # None /\ adapter_result.v.kind = "return") =>
          \/ StartsWith(adapter_result.v.value, "Error:")
          \/ adapter_result.v.value # ""
    /\ (response # None /\ response.v.status_code = 200) =>
          response.v.body.response # ""

\* the adapter was given the content of an upload of zero bytes
EmptyFileInput(fn) ==
    /\ adapter_calls # <<>>
    /\ adapter_calls[1].fn = fn
    /\ adapter_calls[1].file_content = Some(<<>>)

\* C30: an upload of zero bytes is handled by both adapters as no file: the
\* OpenAI adapter's request has the user message alone, and the Google
\* adapter sends [prompt] to the default model, without rejecting a missing
\* filename or MIME type and without building a part for an image type
C30_EmptyFileAsNoFile ==
    /\ EmptyFileInput("get_openai_chat_response") =>
           \A i \in 1..Len(outbound) :
               outbound[i] =
                   [api |-> "openai.chat.completions.create",
                    model |-> OPENAI_DEFAULT_MODEL,
                    messages |-> << UserMessage >>,
                    max_tokens |-> OpenAIMaxTokens]
    /\ EmptyFileInput("get_google_gemini_response") =>
           /\ \A i \in 1..Len(outbound) :
                  outbound[i] =
                      [api |-> "google.generate_content",
                       model |-> GOOGLE_DEFAULT_MODEL,
                       contents |-> << TextItem(adapter_calls[1].prompt) >>]
           /\ ~AdapterReturned(IncompleteFileMessage)
           /\ provider_reply # None =>
                  (provider_reply.v.kind = "raise" =>
                       provider_reply.v.call # "Part.from_bytes")

C30_Witness ==
    /\ Done
    /\ EmptyFileInput("get_google_gemini_response")
    /\ adapter_calls[1].mime_type = Some("image/png")
    /\ GOOGLE_VISION_MODEL # GOOGLE_DEFAULT_MODEL
    /\ Len(outbound) = 1
    /\ outbound[1].contents = << TextItem(adapter_calls[1].prompt) >>
    /\ AdapterReturnedText

====
